---- MODULE Spec2Model ----
(***************************************************************************)
(* Sales data warehouse ETL: extract (CSV -> frames), transform (clean,    *)
(* date dimension), load (four transactions against the warehouse).        *)
(* A frame is a sequence of rows; a row keeps its pandas index (idx) and   *)
(* one cell per column.  A cell is a number, a string or NaN.              *)
(***************************************************************************)
EXTENDS Integers, Sequences, FiniteSets, TLC

(***************************************************************************)
(* Bounds of the model                                                     *)
(***************************************************************************)
\* longest sales / customers / products file of the multi-run specification
MaxSales == 2
MaxCustomers == 1
MaxProducts == 1
\* number of pipeline runs against the same warehouse
MaxRuns == 2
\* longest file of each kind in the single-run specification
MaxDirtyRows == 3

(***************************************************************************)
(* Cells                                                                   *)
(***************************************************************************)
NaN == [k |-> "nan", n |-> 0, s |-> ""]
Num(v) == [k |-> "num", n |-> v, s |-> ""]
Str(t) == [k |-> "str", n |-> 0, s |-> t]
\* a pandas Timestamp, n = yyyymmddHH
Ts(v) == [k |-> "ts", n |-> v, s |-> ""]
IsNa(c) == c.k = "nan"

(***************************************************************************)
(* Text of a CSV field and what the parsers make of it.  "" is an empty    *)
(* field.  The numeric literals of the model:                              *)
(***************************************************************************)
NumLit == {"-1", "0", "1", "2", "3", "4", "6", "9", "01"}

NumVal(t) ==
  CASE t = "-1" -> -1
    [] t = "0" -> 0
    [] t = "1" -> 1
    [] t = "2" -> 2
    [] t = "3" -> 3
    [] t = "4" -> 4
    [] t = "6" -> 6
    [] t = "9" -> 9
    [] t = "01" -> 1

\* the date texts of the model, all in one format
DateLit == {"2024-03-15 09:00", "2024-03-15 17:00", "2024-03-16 09:00"}

DateVal(t) ==
  CASE t = "2024-03-15 09:00" -> 2024031509
    [] t = "2024-03-15 17:00" -> 2024031517
    [] t = "2024-03-16 09:00" -> 2024031609

SalesCols == {"sale_id", "sale_date", "customer_id", "product_id",
              "quantity", "unit_price", "total_amount"}
CustomerCols == {"customer_id", "customer_name", "email", "city", "country"}
ProductCols == {"product_id", "product_name", "category", "subcategory", "unit_cost"}

(***************************************************************************)
(* extract: pd.read_csv.  A column whose non-empty fields are all numeric  *)
(* becomes a numeric column; any other column keeps the text of every      *)
(* field.  An empty field is NaN.                                          *)
(***************************************************************************)
ColIsNumeric(file, c) ==
  \A i \in 1..Len(file) : file[i][c] = "" \/ file[i][c] \in NumLit

read_csv(file, cols) ==
  [i \in 1..Len(file) |->
     [idx |-> i - 1,
      cells |-> [c \in cols |->
                   IF file[i][c] = "" THEN NaN
                   ELSE IF ColIsNumeric(file, c) THEN Num(NumVal(file[i][c]))
                   ELSE Str(file[i][c])]]]

(***************************************************************************)
(* Frame helpers                                                           *)
(***************************************************************************)
\* the rows of df at the positions that satisfy Keep, in order
FilterPos(df, keep) ==
  LET F[i \in 0..Len(df)] ==
        IF i = 0 THEN <<>>
        ELSE IF i \in keep THEN Append(F[i - 1], df[i]) ELSE F[i - 1]
  IN F[Len(df)]

SetCell(row, c, v) == [row EXCEPT !.cells = [@ EXCEPT ![c] = v]]

\* pd.to_numeric(errors='coerce') on one cell
to_numeric(c) ==
  IF c.k = "num" THEN c
  ELSE IF c.k = "str" /\ c.s \in NumLit THEN Num(NumVal(c.s))
  ELSE NaN

\* pd.to_datetime on one cell: defined when CanDatetime
CanDatetime(c) == c.k = "ts" \/ (c.k = "str" /\ c.s \in DateLit)
to_datetime(c) == IF c.k = "ts" THEN c ELSE Ts(DateVal(c.s))
\* Timestamp.date() as yyyymmdd
DateOf(c) == c.n \div 100

\* Python int(x): defined when CanInt (otherwise ValueError)
CanInt(c) == c.k = "num" \/ (c.k = "str" /\ c.s \in NumLit)
PyInt(c) == IF c.k = "num" THEN c.n ELSE NumVal(c.s)

(***************************************************************************)
(* transform.py                                                            *)
(***************************************************************************)
\* df.drop_duplicates(subset=[key]): the first row of each key value stays
remove_duplicates(df, key) ==
  FilterPos(df, {i \in 1..Len(df) : \A j \in 1..(i - 1) : df[j].cells[key] # df[i].cells[key]})

\* strategy='drop': df.dropna()
handle_missing_values(df) ==
  FilterPos(df, {i \in 1..Len(df) : \A c \in DOMAIN df[i].cells : ~IsNa(df[i].cells[c])})

\* df.dropna(subset=cols)
dropna_subset(df, cols) ==
  FilterPos(df, {i \in 1..Len(df) : \A c \in cols : ~IsNa(df[i].cells[c])})

\* df[c] = pd.to_numeric(df[c], errors='coerce')
ColToNumeric(df, c) == [i \in 1..Len(df) |-> SetCell(df[i], c, to_numeric(df[i].cells[c]))]
\* df[c] = pd.to_datetime(df[c])
ColToDatetime(df, c) == [i \in 1..Len(df) |-> SetCell(df[i], c, to_datetime(df[i].cells[c]))]

Measures == {"quantity", "unit_price", "total_amount"}

\* the positivity filter of transform_sales_data
PositiveMeasures_qty_dropped(row) ==
  row.cells["unit_price"].n > 0 /\ row.cells["total_amount"].n > 0

PositiveMeasures(row) ==
  /\ row.cells["quantity"].n > 0
  /\ row.cells["unit_price"].n > 0
  /\ row.cells["total_amount"].n > 0

\* the frame before the sale_date conversion (lines 76-82)
SalesDeduped(sales_df) == handle_missing_values(remove_duplicates(sales_df, "sale_id"))

\* pd.to_datetime(df['sale_date']) raises when a remaining row has no date in it
SalesDatesParse(sales_df) ==
  \A i \in 1..Len(SalesDeduped(sales_df)) :
     CanDatetime(SalesDeduped(sales_df)[i].cells["sale_date"])

transform_sales_data(sales_df) ==
  LET d1 == SalesDeduped(sales_df)
      d2 == ColToDatetime(d1, "sale_date")
      d3 == ColToNumeric(ColToNumeric(ColToNumeric(d2, "quantity"), "unit_price"),
                         "total_amount")
      d4 == dropna_subset(d3, Measures)
  IN FilterPos(d4, {i \in 1..Len(d4) : PositiveMeasures(d4[i])})

transform_customers_data(customers_df) ==
  LET d1 == handle_missing_values(remove_duplicates(customers_df, "customer_id"))
      d2 == ColToNumeric(d1, "customer_id")
  IN dropna_subset(d2, {"customer_id"})

\* df[c] = df[c].fillna(0)
FillZero(c) == IF IsNa(c) THEN Num(0) ELSE c
ColFillZero(df, c) == [i \in 1..Len(df) |-> SetCell(df[i], c, FillZero(df[i].cells[c]))]

transform_products_data(products_df) ==
  LET d1 == handle_missing_values(remove_duplicates(products_df, "product_id"))
      d2 == ColToNumeric(d1, "product_id")
      d3 == dropna_subset(d2, {"product_id"})
      d4 == ColToNumeric(d3, "unit_cost")
  IN ColFillZero(d4, "unit_cost")

(***************************************************************************)
(* create_date_dimension                                                   *)
(***************************************************************************)
month_names == <<"January", "February", "March", "April", "May", "June", "July",
                 "August", "September", "October", "November", "December">>
day_names == <<"Monday", "Tuesday", "Wednesday", "Thursday", "Friday",
               "Saturday", "Sunday">>
quarter_names == <<"Q1", "Q2", "Q3", "Q4">>

\* Timestamp.weekday(): Monday = 0 ... Sunday = 6
Weekday(y, m, d) ==
  LET t == <<0, 3, 2, 5, 0, 3, 5, 1, 4, 6, 2, 4>>
      yy == IF m < 3 THEN y - 1 ELSE y
      sun0 == (yy + (yy \div 4) - (yy \div 100) + (yy \div 400) + t[m] + d) % 7
  IN (sun0 + 6) % 7

\* one date record (lines 181-214) of a Timestamp cell
DateRecord(ts) ==
  LET date == DateOf(ts)
      day == date % 100
      month == (date \div 100) % 100
      year == date \div 10000
      quarter == ((month - 1) \div 3) + 1
      wd == Weekday(year, month, day)
  IN [sale_date |-> date, day |-> day, month |-> month, quarter |-> quarter,
      year |-> year, month_name |-> month_names[month],
      quarter_name |-> quarter_names[quarter],
      day_of_week |-> day_names[wd + 1], is_weekend |-> wd >= 5]

\* sales_df['sale_date'].unique(): the distinct Timestamps, in order of appearance
UniqueDates(sales_df) ==
  LET col == [i \in 1..Len(sales_df) |-> sales_df[i].cells["sale_date"]]
      F[i \in 0..Len(col)] ==
        IF i = 0 THEN <<>>
        ELSE IF \E j \in 1..(i - 1) : col[j] = col[i] THEN F[i - 1]
        ELSE Append(F[i - 1], col[i])
  IN F[Len(col)]

\* sort_values('sale_date'): records of one sale_date are equal, so the order is unique
RECURSIVE SortByDate(_)
SortByDate(recs) ==
  IF recs = <<>> THEN <<>>
  ELSE LET m == CHOOSE i \in 1..Len(recs) :
                  \A j \in 1..Len(recs) : recs[i].sale_date <= recs[j].sale_date
           rest == [j \in 1..(Len(recs) - 1) |-> IF j < m THEN recs[j] ELSE recs[j + 1]]
       IN <<recs[m]>> \o SortByDate(rest)

\* pd.DataFrame([]) has no sale_date column: sort_values raises KeyError
DateDimensionBuilds(sales_df) == UniqueDates(sales_df) # <<>>

create_date_dimension(sales_df) ==
  LET u == UniqueDates(sales_df)
  IN SortByDate([i \in 1..Len(u) |-> DateRecord(u[i])])

(***************************************************************************)
(* The warehouse.  Each table is a set of rows.  The store assigns the     *)
(* surrogate key of a new row; rows are never deleted.                     *)
(***************************************************************************)
NextKey(table) == Cardinality(table) + 1

\* dict.get on a miss
None == -1
Get(lookup, k) == IF k \in DOMAIN lookup THEN lookup[k] ELSE None

\* two values of one batch conflict on the same key: ON CONFLICT DO UPDATE
\* cannot affect a row a second time, the statement fails
CardinalityViolation(keys) ==
  \E i, j \in 1..Len(keys) : i < j /\ keys[i] = keys[j]

\* INSERT INTO dim_customer ... ON CONFLICT (customer_id) DO UPDATE SET ...
UpsertCustomer_keeps_email(table, v, now) ==
  IF \E r \in table : r.customer_id = v.customer_id
  THEN {IF r.customer_id = v.customer_id
        THEN [r EXCEPT !.customer_name = v.customer_name,
                       !.city = v.city, !.country = v.country, !.updated_at = now]
        ELSE r : r \in table}
  ELSE table \cup {[customer_key |-> NextKey(table), customer_id |-> v.customer_id,
                    customer_name |-> v.customer_name, email |-> v.email,
                    city |-> v.city, country |-> v.country, updated_at |-> now]}

UpsertCustomer(table, v, now) ==
  IF \E r \in table : r.customer_id = v.customer_id
  THEN {IF r.customer_id = v.customer_id
        THEN [r EXCEPT !.customer_name = v.customer_name, !.email = v.email,
                       !.city = v.city, !.country = v.country, !.updated_at = now]
        ELSE r : r \in table}
  ELSE table \cup {[customer_key |-> NextKey(table), customer_id |-> v.customer_id,
                    customer_name |-> v.customer_name, email |-> v.email,
                    city |-> v.city, country |-> v.country, updated_at |-> now]}

\* INSERT INTO dim_product ... ON CONFLICT (product_id) DO UPDATE SET ...
UpsertProduct(table, v, now) ==
  IF \E r \in table : r.product_id = v.product_id
  THEN {IF r.product_id = v.product_id
        THEN [r EXCEPT !.product_name = v.product_name, !.category = v.category,
                       !.subcategory = v.subcategory, !.unit_cost = v.unit_cost,
                       !.updated_at = now]
        ELSE r : r \in table}
  ELSE table \cup {[product_key |-> NextKey(table), product_id |-> v.product_id,
                    product_name |-> v.product_name, category |-> v.category,
                    subcategory |-> v.subcategory, unit_cost |-> v.unit_cost,
                    updated_at |-> now]}

\* INSERT INTO dim_date ... ON CONFLICT (sale_date) DO NOTHING
InsertDate_replaces(table, v) ==
  {r \in table : r.sale_date # v.sale_date}
    \cup {[date_key |-> NextKey(table) + 1, sale_date |-> v.sale_date, day |-> v.day,
           month |-> v.month, quarter |-> v.quarter, year |-> v.year,
           month_name |-> v.month_name, quarter_name |-> v.quarter_name,
           day_of_week |-> v.day_of_week, is_weekend |-> v.is_weekend]}

InsertDate(table, v) ==
  IF \E r \in table : r.sale_date = v.sale_date
  THEN table
  ELSE table \cup {[date_key |-> NextKey(table), sale_date |-> v.sale_date,
                    day |-> v.day, month |-> v.month, quarter |-> v.quarter,
                    year |-> v.year, month_name |-> v.month_name,
                    quarter_name |-> v.quarter_name, day_of_week |-> v.day_of_week,
                    is_weekend |-> v.is_weekend]}

\* INSERT INTO fact_sales ... ON CONFLICT (sale_id) DO UPDATE SET the three measures
UpsertFact_relinks(table, v) ==
  {r \in table : r.sale_id # v.sale_id}
    \cup {[sale_id |-> v.sale_id, date_key |-> v.date_key,
           customer_key |-> v.customer_key, product_key |-> v.product_key,
           quantity |-> v.quantity, unit_price |-> v.unit_price,
           total_amount |-> v.total_amount]}

UpsertFact(table, v) ==
  IF \E r \in table : r.sale_id = v.sale_id
  THEN {IF r.sale_id = v.sale_id
        THEN [r EXCEPT !.quantity = v.quantity, !.unit_price = v.unit_price,
                       !.total_amount = v.total_amount]
        ELSE r : r \in table}
  ELSE table \cup {[sale_id |-> v.sale_id, date_key |-> v.date_key,
                    customer_key |-> v.customer_key, product_key |-> v.product_key,
                    quantity |-> v.quantity, unit_price |-> v.unit_price,
                    total_amount |-> v.total_amount]}

\* execute_values: the values of the batch, in order
CustomerBatch(table, values, now) ==
  LET F[i \in 0..Len(values)] ==
        IF i = 0 THEN table ELSE UpsertCustomer(F[i - 1], values[i], now)
  IN F[Len(values)]

ProductBatch(table, values, now) ==
  LET F[i \in 0..Len(values)] ==
        IF i = 0 THEN table ELSE UpsertProduct(F[i - 1], values[i], now)
  IN F[Len(values)]

DateBatch(table, values) ==
  LET F[i \in 0..Len(values)] ==
        IF i = 0 THEN table ELSE InsertDate(F[i - 1], values[i])
  IN F[Len(values)]

FactBatch(table, values) ==
  LET F[i \in 0..Len(values)] ==
        IF i = 0 THEN table ELSE UpsertFact(F[i - 1], values[i])
  IN F[Len(values)]

\* the values tuples of load_dim_customer / load_dim_product (lines 91, 134)
CustomerValues(customers_df) ==
  [i \in 1..Len(customers_df) |->
     [customer_id |-> customers_df[i].cells["customer_id"].n,
      customer_name |-> customers_df[i].cells["customer_name"],
      email |-> customers_df[i].cells["email"],
      city |-> customers_df[i].cells["city"],
      country |-> customers_df[i].cells["country"]]]

ProductValues(products_df) ==
  [i \in 1..Len(products_df) |->
     [product_id |-> products_df[i].cells["product_id"].n,
      product_name |-> products_df[i].cells["product_name"],
      category |-> products_df[i].cells["category"],
      subcategory |-> products_df[i].cells["subcategory"],
      unit_cost |-> products_df[i].cells["unit_cost"]]]

(***************************************************************************)
(* load_fact_sales: lookups and the record-resolution loop                 *)
(***************************************************************************)
DateLookup(dd) ==
  [d \in {r.sale_date : r \in dd} |-> (CHOOSE r \in dd : r.sale_date = d).date_key]
CustomerLookup(dc) ==
  [c \in {r.customer_id : r \in dc} |-> (CHOOSE r \in dc : r.customer_id = c).customer_key]
ProductLookup(dp) ==
  [p \in {r.product_id : r \in dp} |-> (CHOOSE r \in dp : r.product_id = p).product_key]

Truthy_none_passes(x) == x # 0

Truthy(x) == x # None /\ x # 0

\* all([date_key, customer_key, product_key])
AllResolved_any(date_key, customer_key, product_key) ==
  Truthy(date_key) \/ Truthy(customer_key) \/ Truthy(product_key)

AllResolved(date_key, customer_key, product_key) ==
  Truthy(date_key) /\ Truthy(customer_key) /\ Truthy(product_key)

\* int(row['customer_id']) and int(row['product_id']) succeed
RowIdsParse(row) == CanInt(row.cells["customer_id"]) /\ CanInt(row.cells["product_id"])

RowDateKey(row, dd) == Get(DateLookup(dd), DateOf(row.cells["sale_date"]))
RowCustomerKey(row, dc) == Get(CustomerLookup(dc), PyInt(row.cells["customer_id"]))
RowProductKey(row, dp) == Get(ProductLookup(dp), PyInt(row.cells["product_id"]))

RowResolved(row, dc, dp, dd) ==
  AllResolved(RowDateKey(row, dd), RowCustomerKey(row, dc), RowProductKey(row, dp))

\* the loop raises ValueError on a row whose ids, or whose sale_id when the row
\* is not skipped, are no integers
ResolveRaises(sales_df, dc, dp, dd) ==
  \E i \in 1..Len(sales_df) :
     \/ ~RowIdsParse(sales_df[i])
     \/ RowResolved(sales_df[i], dc, dp, dd) /\ ~CanInt(sales_df[i].cells["sale_id"])

\* fact_records, each with the index of the sales row it was made from
FactRecords(sales_df, dc, dp, dd) ==
  LET kept == FilterPos(sales_df, {i \in 1..Len(sales_df) :
                                     RowResolved(sales_df[i], dc, dp, dd)})
  IN [i \in 1..Len(kept) |->
        [idx |-> kept[i].idx,
         sale_id |-> PyInt(kept[i].cells["sale_id"]),
         date_key |-> RowDateKey(kept[i], dd),
         customer_key |-> RowCustomerKey(kept[i], dc),
         product_key |-> RowProductKey(kept[i], dp),
         quantity |-> kept[i].cells["quantity"].n,
         unit_price |-> kept[i].cells["unit_price"].n,
         total_amount |-> kept[i].cells["total_amount"].n]]

\* skipped += 1 for every row with a failed lookup
SkipCount(sales_df, dc, dp, dd) ==
  Cardinality({i \in 1..Len(sales_df) : ~RowResolved(sales_df[i], dc, dp, dd)})

(***************************************************************************)
(* The CSV files the runs read                                             *)
(***************************************************************************)
SalesLine(id, date, c, p, q, up, tot) ==
  [sale_id |-> id, sale_date |-> date, customer_id |-> c, product_id |-> p,
   quantity |-> q, unit_price |-> up, total_amount |-> tot]
CustomerLine(id, name, mail, cty, ctry) ==
  [customer_id |-> id, customer_name |-> name, email |-> mail, city |-> cty,
   country |-> ctry]
ProductLine(id, name, cat, sub, cost) ==
  [product_id |-> id, product_name |-> name, category |-> cat, subcategory |-> sub,
   unit_cost |-> cost]

SeqUpTo(S, n) == UNION {[1..k -> S] : k \in 0..n}

\* lines of the multi-run specification
SalesLines ==
  {SalesLine("1", "2024-03-15 09:00", "1", "1", "3", "2", "6"),
   SalesLine("1", "2024-03-16 09:00", "2", "1", "2", "2", "4"),
   SalesLine("2", "2024-03-15 17:00", "2", "1", "1", "4", "4"),
   SalesLine("2", "2024-03-15 17:00", "1", "1", "0", "2", "6"),
   SalesLine("2", "2024-03-15 17:00", "1", "1", "3", "-1", "6"),
   SalesLine("2", "2024-03-15 17:00", "1", "1", "3", "2", "x")}
CustomerLines ==
  {CustomerLine("1", "Alice", "a@x.com", "NY", "US"),
   CustomerLine("1", "Alicia", "b@y.org", "LA", "CA"),
   CustomerLine("2", "Bob", "c@z.net", "SF", "US")}
ProductLines ==
  {ProductLine("1", "Widget", "Tools", "Hand", "2"),
   ProductLine("1", "Gadget", "Toys", "Small", "3")}

\* lines of the single-run specification: dirty data of every kind
DirtySalesLines ==
  {SalesLine("1", "2024-03-15 09:00", "1", "1", "3", "2", "6"),
   SalesLine("01", "2024-03-15 17:00", "1", "1", "2", "2", "4"),
   SalesLine("x", "2024-03-16 09:00", "9", "1", "2", "2", "4"),
   SalesLine("2", "not-a-date", "1", "1", "3", "2", "6"),
   SalesLine("2", "2024-03-16 09:00", "x", "1", "3", "2", "6"),
   SalesLine("2", "2024-03-16 09:00", "1", "", "3", "2", "6"),
   SalesLine("2", "2024-03-16 09:00", "1", "1", "0", "2", "x")}
DirtyCustomerLines ==
  {CustomerLine("1", "Alice", "a@x.com", "NY", "US"),
   CustomerLine("01", "Alicia", "b@y.org", "LA", "CA"),
   CustomerLine("x", "Bob", "c@z.net", "SF", "US"),
   CustomerLine("1", "", "d@w.io", "NY", "US")}
DirtyProductLines ==
  {ProductLine("1", "Widget", "Tools", "Hand", "2"),
   ProductLine("01", "Gadget", "Toys", "Small", "3"),
   ProductLine("x", "Gizmo", "Toys", "Small", "3"),
   ProductLine("2", "Bolt", "Tools", "Hand", ""),
   ProductLine("2", "Nut", "Tools", "Hand", "x")}

CleanSalesFile == <<SalesLine("1", "2024-03-15 09:00", "1", "1", "3", "2", "6")>>
CleanCustomersFile == <<CustomerLine("1", "Alice", "a@x.com", "NY", "US")>>
CleanProductsFile == <<ProductLine("1", "Widget", "Tools", "Hand", "2")>>

(***************************************************************************)
(* State                                                                   *)
(***************************************************************************)
VARIABLES
  sales, customers, products,          \* the frames extract_all returned
  sales_t, customers_t, products_t,    \* the frames transform_all made
  date_dim,
  dim_customer, dim_product, dim_date, fact_sales,   \* the warehouse
  pc,             \* where the run is
  run,            \* number of runs started; the time CURRENT_TIMESTAMP reads
  conn,           \* "none", "open", "closed"
  closes,         \* conn.close() calls of this run
  error,          \* the exception the run ended with, or "none"
  step,           \* position of load_all in LoadOrder
  log,            \* load steps attempted in this run, in order
  committed,      \* load steps of this run that committed
  fact_records, skipped,   \* what the resolution loop produced
  conflicts,      \* natural keys of the last batch that met an existing row
  snap            \* the warehouse when a run on unchanged input began

vars == <<sales, customers, products, sales_t, customers_t, products_t, date_dim,
          dim_customer, dim_product, dim_date, fact_sales, pc, run, conn, closes,
          error, step, log, committed, fact_records, skipped, conflicts, snap>>

frames == <<sales, customers, products>>
cleaned == <<sales_t, customers_t, products_t, date_dim>>
warehouse == <<dim_customer, dim_product, dim_date, fact_sales>>
loadvars == <<conn, closes, step, log, committed, fact_records, skipped, conflicts>>

NoSnap == [valid |-> FALSE, dim_customer |-> {}, dim_product |-> {},
           dim_date |-> {}, fact_sales |-> {}]

\* the order of the four load steps in load_all
LoadOrder_fact_first == <<"fact", "customer", "product", "date">>

LoadOrder == <<"customer", "product", "date", "fact">>

\* conn.rollback(): the table as it was before the batch
Rollback_keeps_batch(before, attempted) == attempted

Rollback(before, attempted) == before

Init ==
  /\ sales = <<>> /\ customers = <<>> /\ products = <<>>
  /\ sales_t = <<>> /\ customers_t = <<>> /\ products_t = <<>> /\ date_dim = <<>>
  /\ dim_customer = {} /\ dim_product = {} /\ dim_date = {} /\ fact_sales = {}
  /\ pc = "start" /\ run = 0 /\ conn = "none" /\ closes = 0 /\ error = "none"
  /\ step = 1 /\ log = <<>> /\ committed = {}
  /\ fact_records = <<>> /\ skipped = 0 /\ conflicts = {} /\ snap = NoSnap

\* a run begins: everything of the previous run is gone
BeginRun ==
  /\ run < MaxRuns
  /\ run' = run + 1
  /\ sales_t' = <<>> /\ customers_t' = <<>> /\ products_t' = <<>> /\ date_dim' = <<>>
  /\ conn' = "none" /\ closes' = 0
  /\ step' = 1 /\ log' = <<>> /\ committed' = {}
  /\ fact_records' = <<>> /\ skipped' = 0 /\ conflicts' = {}
  /\ UNCHANGED warehouse

\* extract_all on the three files
extract_all(sf, cf, pf) ==
  /\ pc = "start"
  /\ BeginRun
  /\ sales' = read_csv(sf, SalesCols)
  /\ customers' = read_csv(cf, CustomerCols)
  /\ products' = read_csv(pf, ProductCols)
  /\ pc' = "extracted" /\ error' = "none"
  /\ snap' = NoSnap

Extract ==
  \E sf \in SeqUpTo(SalesLines, MaxSales), cf \in SeqUpTo(CustomerLines, MaxCustomers),
     pf \in SeqUpTo(ProductLines, MaxProducts) : extract_all(sf, cf, pf)

\* one of the three files holds dirty data, the other two are clean
ExtractDirty ==
     \/ \E sf \in SeqUpTo(DirtySalesLines, MaxDirtyRows) :
           extract_all(sf, CleanCustomersFile, CleanProductsFile)
     \/ \E cf \in SeqUpTo(DirtyCustomerLines, MaxDirtyRows) :
           extract_all(CleanSalesFile, cf, CleanProductsFile)
     \/ \E pf \in SeqUpTo(DirtyProductLines, MaxDirtyRows) :
           extract_all(CleanSalesFile, CleanCustomersFile, pf)

\* a file is absent: FileNotFoundError, nothing is transformed or loaded
ExtractMissing ==
  /\ pc = "start"
  /\ BeginRun
  /\ sales' = <<>> /\ customers' = <<>> /\ products' = <<>>
  /\ pc' = "failed" /\ error' = "FileNotFoundError"
  /\ snap' = NoSnap

\* the pipeline runs again on the files of the run that just completed
Rerun ==
  /\ pc = "done"
  /\ BeginRun
  /\ UNCHANGED frames
  /\ pc' = "extracted" /\ error' = "none"
  /\ snap' = [valid |-> TRUE, dim_customer |-> dim_customer, dim_product |-> dim_product,
              dim_date |-> dim_date, fact_sales |-> fact_sales]

\* main returned or re-raised: the process ends, its frames are gone
Exit ==
  /\ pc \in {"done", "failed"}
  /\ run < MaxRuns
  /\ pc' = "start"
  /\ sales' = <<>> /\ customers' = <<>> /\ products' = <<>>
  /\ sales_t' = <<>> /\ customers_t' = <<>> /\ products_t' = <<>> /\ date_dim' = <<>>
  /\ conn' = "none" /\ closes' = 0 /\ error' = "none"
  /\ step' = 1 /\ log' = <<>> /\ committed' = {}
  /\ fact_records' = <<>> /\ skipped' = 0 /\ conflicts' = {}
  /\ snap' = NoSnap
  /\ UNCHANGED <<warehouse, run>>

(***************************************************************************)
(* transform_all                                                           *)
(***************************************************************************)
Raise(e) ==
  /\ pc' = "failed" /\ error' = e

TransformSales ==
  /\ pc = "extracted"
  /\ IF SalesDatesParse(sales)
     THEN /\ sales_t' = transform_sales_data(sales)
          /\ pc' = "sales_clean" /\ UNCHANGED error
     ELSE /\ Raise("ValueError") /\ UNCHANGED sales_t
  /\ UNCHANGED <<frames, customers_t, products_t, date_dim, warehouse, run, loadvars, snap>>

TransformCustomers ==
  /\ pc = "sales_clean"
  /\ customers_t' = transform_customers_data(customers)
  /\ pc' = "customers_clean"
  /\ UNCHANGED <<frames, sales_t, products_t, date_dim, warehouse, run, error, loadvars, snap>>

TransformProducts ==
  /\ pc = "customers_clean"
  /\ products_t' = transform_products_data(products)
  /\ pc' = "products_clean"
  /\ UNCHANGED <<frames, sales_t, customers_t, date_dim, warehouse, run, error, loadvars, snap>>

CreateDateDimension ==
  /\ pc = "products_clean"
  /\ IF DateDimensionBuilds(sales_t)
     THEN /\ date_dim' = create_date_dimension(sales_t)
          /\ pc' = "transformed" /\ UNCHANGED error
     ELSE /\ Raise("KeyError") /\ UNCHANGED date_dim
  /\ UNCHANGED <<frames, sales_t, customers_t, products_t, warehouse, run, loadvars, snap>>

(***************************************************************************)
(* load_all                                                                *)
(***************************************************************************)
\* get_connection: psycopg2.connect returns a connection or raises
GetConnection ==
  /\ pc = "transformed"
  /\ \E ok \in BOOLEAN :
       IF ok THEN /\ conn' = "open" /\ pc' = "load" /\ UNCHANGED error
             ELSE /\ Raise("OperationalError") /\ UNCHANGED conn
  /\ UNCHANGED <<frames, cleaned, warehouse, run, closes, step, log, committed,
                 fact_records, skipped, conflicts, snap>>

\* a load step is entered: load_all is at that call and the connection is open
AtStep(name) ==
  /\ pc = "load" /\ conn = "open"
  /\ step <= Len(LoadOrder) /\ LoadOrder[step] = name
  /\ log' = Append(log, name)

Commit(name) ==
  /\ committed' = committed \cup {name}
  /\ step' = step + 1
  /\ pc' = IF step = Len(LoadOrder) THEN "loaded" ELSE "load"
  /\ UNCHANGED error

\* the step raised: load_all goes to its finally clause
Fail(e) ==
  /\ pc' = "closing" /\ error' = e
  /\ UNCHANGED <<committed, step>>

load_dim_customer ==
  /\ AtStep("customer")
  /\ LET values == CustomerValues(customers_t)
         ids == [i \in 1..Len(values) |-> values[i].customer_id]
         done == CustomerBatch(dim_customer, values, run)
     IN \E ok \in BOOLEAN :
          IF ok /\ ~CardinalityViolation(ids)
          THEN /\ dim_customer' = done
               /\ conflicts' = {values[i].customer_id : i \in 1..Len(values)}
                                 \cap {r.customer_id : r \in dim_customer}
               /\ Commit("customer")
          ELSE /\ dim_customer' = Rollback(dim_customer, done)
               /\ conflicts' = {}
               /\ Fail("psycopg2.Error")
  /\ UNCHANGED <<frames, cleaned, dim_product, dim_date, fact_sales, run, conn, closes,
                 fact_records, skipped, snap>>

load_dim_product ==
  /\ AtStep("product")
  /\ LET values == ProductValues(products_t)
         ids == [i \in 1..Len(values) |-> values[i].product_id]
         done == ProductBatch(dim_product, values, run)
     IN \E ok \in BOOLEAN :
          IF ok /\ ~CardinalityViolation(ids)
          THEN /\ dim_product' = done
               /\ conflicts' = {values[i].product_id : i \in 1..Len(values)}
                                 \cap {r.product_id : r \in dim_product}
               /\ Commit("product")
          ELSE /\ dim_product' = Rollback(dim_product, done)
               /\ conflicts' = {}
               /\ Fail("psycopg2.Error")
  /\ UNCHANGED <<frames, cleaned, dim_customer, dim_date, fact_sales, run, conn, closes,
                 fact_records, skipped, snap>>

load_dim_date ==
  /\ AtStep("date")
  /\ LET done == DateBatch(dim_date, date_dim)
     IN \E ok \in BOOLEAN :
          IF ok
          THEN /\ dim_date' = done
               /\ conflicts' = {date_dim[i].sale_date : i \in 1..Len(date_dim)}
                                 \cap {r.sale_date : r \in dim_date}
               /\ Commit("date")
          ELSE /\ dim_date' = Rollback(dim_date, done)
               /\ conflicts' = {}
               /\ Fail("psycopg2.Error")
  /\ UNCHANGED <<frames, cleaned, dim_customer, dim_product, fact_sales, run, conn,
                 closes, fact_records, skipped, snap>>

load_fact_sales ==
  /\ AtStep("fact")
  /\ IF ResolveRaises(sales_t, dim_customer, dim_product, dim_date)
     THEN \* int() raised in the loop: nothing was written
          /\ Fail("ValueError")
          /\ UNCHANGED <<fact_sales, fact_records, skipped, conflicts>>
     ELSE LET recs == FactRecords(sales_t, dim_customer, dim_product, dim_date)
              ids == [i \in 1..Len(recs) |-> recs[i].sale_id]
              done == FactBatch(fact_sales, recs)
          IN /\ fact_records' = recs
             /\ skipped' = SkipCount(sales_t, dim_customer, dim_product, dim_date)
             /\ \E ok \in BOOLEAN :
                  IF ok /\ ~CardinalityViolation(ids)
                  THEN /\ fact_sales' = done
                       /\ conflicts' = {recs[i].sale_id : i \in 1..Len(recs)}
                                         \cap {r.sale_id : r \in fact_sales}
                       /\ Commit("fact")
                  ELSE /\ fact_sales' = Rollback(fact_sales, done)
                       /\ conflicts' = {}
                       /\ Fail("psycopg2.Error")
  /\ UNCHANGED <<frames, cleaned, dim_customer, dim_product, dim_date, run, conn,
                 closes, snap>>

\* a load_all that closes in its try block only: an error leaves the connection open
CloseConnection_only_on_success ==
  /\ pc \in {"loaded", "closing"}
  /\ conn' = IF conn = "open" /\ error = "none" THEN "closed" ELSE conn
  /\ closes' = IF conn = "open" /\ error = "none" THEN closes + 1 ELSE closes
  /\ pc' = IF error = "none" THEN "done" ELSE "failed"
  /\ UNCHANGED <<frames, cleaned, warehouse, run, error, step, log, committed,
                 fact_records, skipped, conflicts, snap>>

\* the finally clause of load_all: if conn: conn.close()
CloseConnection ==
  /\ pc \in {"loaded", "closing"}
  /\ conn' = IF conn = "open" THEN "closed" ELSE conn
  /\ closes' = IF conn = "open" THEN closes + 1 ELSE closes
  /\ pc' = IF error = "none" THEN "done" ELSE "failed"
  /\ UNCHANGED <<frames, cleaned, warehouse, run, error, step, log, committed,
                 fact_records, skipped, conflicts, snap>>

Transform ==
  TransformSales \/ TransformCustomers \/ TransformProducts \/ CreateDateDimension

Load ==
  \/ GetConnection
  \/ load_dim_customer \/ load_dim_product \/ load_dim_date \/ load_fact_sales
  \/ CloseConnection

\* runs on small clean-or-filtered files, again and again on one warehouse
Next == Extract \/ ExtractMissing \/ Rerun \/ Exit \/ Transform \/ Load

Spec == Init /\ [][Next]_vars

\* one run on files with dirty data
NextDirty == ExtractDirty \/ Transform \/ Load

SpecDirty == Init /\ [][NextDirty]_vars

(***************************************************************************)
(* Properties                                                              *)
(***************************************************************************)
Range(f) == {f[i] : i \in DOMAIN f}
Last(q) == q[Len(q)]

\* C1 (referential completeness): every fact_sales row's date_key, customer_key
\* and product_key is the surrogate key of exactly one dim_date, dim_customer
\* and dim_product row; no fact row carries a missing key or a key of no row.
ReferentialCompleteness ==
  \A f \in fact_sales :
     /\ Cardinality({d \in dim_date : d.date_key = f.date_key}) = 1
     /\ Cardinality({c \in dim_customer : c.customer_key = f.customer_key}) = 1
     /\ Cardinality({q \in dim_product : q.product_key = f.product_key}) = 1

\* a run that persisted a fact and skipped a sales record of an unknown customer
FactsPersistedWithSkip ==
  /\ pc = "done" /\ skipped > 0
  /\ Len(fact_records) > 0
  /\ fact_sales # {}

\* C2 (load ordering): the load steps of a run are attempted in the order
\* customer, product, date, fact, and the fact step is attempted only when the
\* customer, product and date transactions of the run have all committed.
LoadOrdering ==
  /\ \E k \in 0..4 : log = SubSeq(<<"customer", "product", "date", "fact">>, 1, k)
  /\ "fact" \in Range(log) => {"customer", "product", "date"} \subseteq committed
  /\ committed \subseteq Range(log)

\* all four steps ran and committed
AllFourCommitted ==
  /\ pc = "loaded"
  /\ Len(log) = 4
  /\ committed = {"customer", "product", "date", "fact"}

\* C3 (persistence error): a load step that raises leaves the warehouse tables as
\* they were before the step, the error leaves load_all (the run ends failed with
\* that error), and no further load step is attempted in the run.
PersistenceErrorHandling ==
  [][/\ (pc = "load" /\ pc' = "closing") =>
          /\ error' # "none"
          /\ warehouse' = warehouse
          /\ committed' = committed
     /\ pc = "closing" =>
          /\ pc' = "failed" /\ error' = error
          /\ log' = log /\ warehouse' = warehouse
     /\ (pc = "failed" /\ run' = run) =>
          /\ warehouse' = warehouse
          /\ Len(log') <= Len(log)]_vars

\* a fact batch with records in it was rolled back and the run ended failed
FactBatchRolledBack ==
  /\ pc = "failed" /\ error = "psycopg2.Error"
  /\ log = <<"customer", "product", "date", "fact">>
  /\ Len(fact_records) > 0
  /\ conn = "closed"

\* a dim_customer / dim_product row without its update timestamp
CustomerValuesOf(table) ==
  {[customer_key |-> r.customer_key, customer_id |-> r.customer_id,
    customer_name |-> r.customer_name, email |-> r.email, city |-> r.city,
    country |-> r.country] : r \in table}
ProductValuesOf(table) ==
  {[product_key |-> r.product_key, product_id |-> r.product_id,
    product_name |-> r.product_name, category |-> r.category,
    subcategory |-> r.subcategory, unit_cost |-> r.unit_cost] : r \in table}

\* C4 as stated (idempotence): while and after the pipeline runs a second time
\* on unchanged input, the four tables hold the rows, with the values, they
\* held after the first run.
Idempotence ==
  snap.valid =>
     /\ dim_customer = snap.dim_customer
     /\ dim_product = snap.dim_product
     /\ dim_date = snap.dim_date
     /\ fact_sales = snap.fact_sales

\* C4 as amended: the same, but for the updated_at column of dim_customer and
\* dim_product, which the second run refreshes.
IdempotenceButUpdatedAt ==
  snap.valid =>
     /\ CustomerValuesOf(dim_customer) = CustomerValuesOf(snap.dim_customer)
     /\ ProductValuesOf(dim_product) = ProductValuesOf(snap.dim_product)
     /\ dim_date = snap.dim_date
     /\ fact_sales = snap.fact_sales

\* the second run on unchanged input completed, with rows in all four tables
SecondRunCompleted ==
  /\ snap.valid /\ pc = "done"
  /\ dim_customer # {} /\ dim_product # {} /\ dim_date # {} /\ fact_sales # {}
  /\ conflicts # {}

\* C6 (fact upsert frame): a load never changes the date_key, customer_key or
\* product_key of an existing fact_sales row; a fact record whose sale_id exists
\* replaces quantity, unit_price and total_amount of that row, nothing else.
FactUpsertFrame ==
  [][/\ \A f \in fact_sales : \E g \in fact_sales' :
           /\ g.sale_id = f.sale_id /\ g.date_key = f.date_key
           /\ g.customer_key = f.customer_key /\ g.product_key = f.product_key
     /\ ("fact" \notin committed /\ "fact" \in committed') =>
           \A i \in 1..Len(fact_records') : \A f \in fact_sales :
              f.sale_id = fact_records'[i].sale_id =>
                 [f EXCEPT !.quantity = fact_records'[i].quantity,
                           !.unit_price = fact_records'[i].unit_price,
                           !.total_amount = fact_records'[i].total_amount]
                   \in fact_sales']_vars

\* a committed fact record met a row of its sale_id that is linked to another
\* customer and another date: the row has the record's measures and its own links
FactUpdatedLinkKept ==
  /\ "fact" \in committed
  /\ \E i \in 1..Len(fact_records) : \E f \in fact_sales :
        /\ f.sale_id = fact_records[i].sale_id
        /\ f.sale_id \in conflicts
        /\ f.customer_key # fact_records[i].customer_key
        /\ f.date_key # fact_records[i].date_key
        /\ f.quantity = fact_records[i].quantity

\* C7 (dimension upsert policy): a customer / product of the batch whose natural
\* key exists overwrites customer_name, email, city, country / product_name,
\* category, subcategory, unit_cost of the existing row and keeps its surrogate
\* key; a load never changes or removes an existing dim_date row.
DimensionUpsertPolicy ==
  [][/\ ("customer" \notin committed /\ "customer" \in committed') =>
           \A i \in 1..Len(customers_t) : \A r \in dim_customer :
              r.customer_id = customers_t[i].cells["customer_id"].n =>
                 \E n \in dim_customer' :
                    /\ n.customer_key = r.customer_key
                    /\ n.customer_id = r.customer_id
                    /\ n.customer_name = customers_t[i].cells["customer_name"]
                    /\ n.email = customers_t[i].cells["email"]
                    /\ n.city = customers_t[i].cells["city"]
                    /\ n.country = customers_t[i].cells["country"]
     /\ ("product" \notin committed /\ "product" \in committed') =>
           \A i \in 1..Len(products_t) : \A r \in dim_product :
              r.product_id = products_t[i].cells["product_id"].n =>
                 \E n \in dim_product' :
                    /\ n.product_key = r.product_key
                    /\ n.product_id = r.product_id
                    /\ n.product_name = products_t[i].cells["product_name"]
                    /\ n.category = products_t[i].cells["category"]
                    /\ n.subcategory = products_t[i].cells["subcategory"]
                    /\ n.unit_cost = products_t[i].cells["unit_cost"]
     /\ dim_date \subseteq dim_date'
     /\ Cardinality(dim_customer') = Cardinality({r.customer_id : r \in dim_customer'})
     /\ Cardinality(dim_product') = Cardinality({r.product_id : r \in dim_product'})]_vars

\* the customer batch met the row of customer 1, loaded by an earlier run under
\* another name, and the date batch met a date of an earlier run
CustomerOverwrittenDateKept ==
  /\ run = MaxRuns
  /\ log = <<"customer", "product", "date">> /\ committed = Range(log)
  /\ conflicts # {}
  /\ \E r \in dim_customer :
        /\ r.customer_id = 1 /\ r.customer_name = Str("Alicia") /\ r.updated_at = run
        /\ \E q \in dim_product : q.updated_at < run

\* the warehouse holds a dimension row for each of the three natural keys of a row
HasDimensionRows(row) ==
  /\ \E d \in dim_date : d.sale_date = DateOf(row.cells["sale_date"])
  /\ \E c \in dim_customer : c.customer_id = PyInt(row.cells["customer_id"])
  /\ \E q \in dim_product : q.product_id = PyInt(row.cells["product_id"])

\* C5 (unresolvable references): once the resolution loop has run, a cleaned sales
\* record is among the fact records iff the warehouse holds a dimension row for
\* its sale_date, customer_id and product_id; the others are counted in skipped,
\* no error comes of them, skipped + emitted = number of records, and every
\* cleaned customer and product is in its dimension with the values of the batch.
UnresolvedReferencePolicy ==
  (log # <<>> /\ Last(log) = "fact") =>
     /\ error \in {"none", "psycopg2.Error"}
     /\ \A i \in 1..Len(sales_t) :
           (\E j \in 1..Len(fact_records) : fact_records[j].idx = sales_t[i].idx)
             <=> HasDimensionRows(sales_t[i])
     /\ skipped = Cardinality({i \in 1..Len(sales_t) : ~HasDimensionRows(sales_t[i])})
     /\ skipped + Len(fact_records) = Len(sales_t)
     /\ \A i \in 1..Len(customers_t) : \E r \in dim_customer :
           /\ r.customer_id = customers_t[i].cells["customer_id"].n
           /\ r.customer_name = customers_t[i].cells["customer_name"]
     /\ \A i \in 1..Len(products_t) : \E r \in dim_product :
           /\ r.product_id = products_t[i].cells["product_id"].n
           /\ r.product_name = products_t[i].cells["product_name"]

\* of two cleaned sales records one was emitted and one, of a customer the
\* warehouse does not hold, skipped; the customer of the batch was loaded
OneEmittedOneSkipped ==
  /\ pc = "loaded"
  /\ Len(sales_t) = 2 /\ skipped = 1 /\ Len(fact_records) = 1
  /\ Len(customers_t) = 1 /\ Cardinality(dim_customer) = 1

\* the key cell of an input row and of an output row name the same key value
SameKey(raw, out) == raw = out \/ (~IsNa(to_numeric(raw)) /\ to_numeric(raw) = out)

\* at most one row of out per key value, each the first input row of its key
Deduplicated(in, out, key) ==
  /\ \A i, j \in 1..Len(out) : i # j => out[i].cells[key] # out[j].cells[key]
  /\ \A i \in 1..Len(out) : \A r \in 1..Len(in) :
        SameKey(in[r].cells[key], out[i].cells[key]) => in[r].idx >= out[i].idx

\* C8 as stated (dedup invariant): the output of each cleaner holds at most one
\* row per value of its key (sale_id, customer_id, product_id), and that row is
\* the first input row with that key value.
DedupInvariant ==
  /\ pc \in {"sales_clean", "customers_clean", "products_clean", "transformed"}
       => Deduplicated(sales, sales_t, "sale_id")
  /\ pc \in {"customers_clean", "products_clean", "transformed"}
       => Deduplicated(customers, customers_t, "customer_id")
  /\ pc \in {"products_clean", "transformed"}
       => Deduplicated(products, products_t, "product_id")

\* a cell that reads as a number <= 0, a cell that does not read as a number
NonPositive(c) ==
  \/ c.k = "num" /\ c.n <= 0
  \/ c.k = "str" /\ c.s \in NumLit /\ NumVal(c.s) <= 0
NonNumeric(c) == c.k = "str" /\ c.s \notin NumLit

FailsQuality(row) ==
  \/ NonPositive(row.cells["quantity"])
  \/ NonPositive(row.cells["unit_price"])
  \/ NonPositive(row.cells["total_amount"])
  \/ NonNumeric(row.cells["total_amount"])

\* C9 (quality filter): a sales row whose quantity, unit_price or total_amount is
\* <= 0, or whose total_amount is no number, is not in the cleaned sales set and
\* no fact record of the run is made from it.
QualityFilter ==
  \A i \in 1..Len(sales) :
     FailsQuality(sales[i]) =>
        /\ \A j \in 1..Len(sales_t) : sales_t[j].idx # sales[i].idx
        /\ \A j \in 1..Len(fact_records) : fact_records[j].idx # sales[i].idx

\* a run loaded a fact while its input held a failing row whose sale_id is the
\* sale_id of a fact an earlier run persisted: that fact has its old measures
FailingRowLeftFactAlone ==
  /\ pc = "done" /\ run = MaxRuns /\ Len(fact_records) > 0
  /\ \E i \in 1..Len(sales) :
        /\ FailsQuality(sales[i])
        /\ \E f \in fact_sales :
              /\ f.sale_id = PyInt(sales[i].cells["sale_id"])
              /\ f.quantity = 1 /\ f.unit_price = 4 /\ f.total_amount = 4

\* C10 as stated (data-quality problems never raise): whatever rows the files
\* hold, transform_all and the resolution loop of load_fact_sales end without an
\* error of their own; a run fails only on a missing file or a database error.
DataQualityNeverRaises ==
  error \in {"none", "FileNotFoundError", "OperationalError", "psycopg2.Error"}

\* the calendar dates of the cleaned sales set
SaleDatesOf(df) == {DateOf(df[i].cells["sale_date"]) : i \in 1..Len(df)}

\* C11 as stated (date dimension shape): the frame create_date_dimension returned
\* holds exactly one row per calendar sale_date of the cleaned sales set - no two
\* rows share a sale_date, every sale_date of the input has a row and no other
\* date has one - in ascending order of sale_date.
DateDimensionShape ==
  pc = "transformed" =>
     /\ \A i, j \in 1..Len(date_dim) : i # j => date_dim[i].sale_date # date_dim[j].sale_date
     /\ {date_dim[i].sale_date : i \in 1..Len(date_dim)} = SaleDatesOf(sales_t)
     /\ \A i, j \in 1..Len(date_dim) : i < j => date_dim[i].sale_date <= date_dim[j].sale_date

\* row i of the products file lacks its unit_cost and nothing else: its other
\* fields are present, its product_id reads as a number and no earlier row has it
OnlyCostAbsent(df, i) ==
  /\ IsNa(df[i].cells["unit_cost"])
  /\ \A c \in ProductCols \ {"unit_cost"} : ~IsNa(df[i].cells[c])
  /\ ~IsNa(to_numeric(df[i].cells["product_id"]))
  /\ \A j \in 1..(i - 1) :
        to_numeric(df[j].cells["product_id"]) # to_numeric(df[i].cells["product_id"])

\* C12 as stated (unit_cost default): a product record whose unit_cost is absent
\* in the file is in the output of transform_products_data with unit_cost 0, and
\* every row of that output has a numeric, non-null unit_cost.
UnitCostDefault ==
  pc \in {"products_clean", "transformed"} =>
     /\ \A i \in 1..Len(products) :
           OnlyCostAbsent(products, i) =>
              \E j \in 1..Len(products_t) :
                 /\ products_t[j].idx = products[i].idx
                 /\ products_t[j].cells["unit_cost"] = Num(0)
     /\ \A j \in 1..Len(products_t) : products_t[j].cells["unit_cost"].k = "num"

\* the run is over (main returned or re-raised) and the connection, if load_all
\* acquired one, was closed exactly once; without one, close was never called
ReleasedOnExit ==
  pc \in {"done", "failed"} =>
     /\ (pc = "done" \/ log # <<>> \/ conn # "none") => conn = "closed" /\ closes = 1
     /\ error = "OperationalError" => conn = "none" /\ closes = 0 /\ log = <<>>
     /\ conn = "none" => closes = 0

\* C13 (connection release): whenever load_all has ended - normally or after an
\* error of any of its four load steps - the connection it acquired has been
\* closed exactly once; when get_connection raised, no close was attempted; and
\* once the connection is closed no load step runs and no table changes.
ConnectionRelease ==
  [][/\ ReleasedOnExit'
     /\ closes' <= 1
     /\ conn = "closed" => /\ Len(log') <= Len(log)
                           /\ warehouse' = warehouse
                           /\ conn' \in {"closed", "none"}
     /\ (conn = "open" /\ conn' # "open") => /\ conn' = "closed" /\ closes' = closes + 1
                                             /\ pc' \in {"done", "failed"}]_vars

\* the date step raised after two commits: the run failed, connection closed once
ClosedOnceAfterStepError ==
  /\ pc = "failed" /\ error = "psycopg2.Error"
  /\ log = <<"customer", "product", "date">> /\ committed = {"customer", "product"}
  /\ conn = "closed" /\ closes = 1

====
